---- MODULE Spec2Model ----
(***************************************************************************)
(* Model of src/runtime/interop/interop.cpp:                               *)
(*                                                                         *)
(*   double example_cpp_function(int input, const std::vector<double>& data)*)
(*   {                                                                     *)
(*       double sum = std::accumulate(data.begin(), data.end(), 0.0);      *)
(*       return static_cast<double>(input) * sum;                          *)
(*   }                                                                     *)
(*                                                                         *)
(* The spec calls this operation scale_sum(multiplier, values).            *)
(*                                                                         *)
(* A double is modelled as a binary floating-point number of the IEEE 754  *)
(* shape with a scaled-down precision and exponent range: a finite value   *)
(* is sign and magnitude, the magnitude counted in units of the smallest   *)
(* positive number of the format; results are rounded to Precision         *)
(* significant bits, ties to even, and overflow to an infinity.            *)
(***************************************************************************)
EXTENDS Integers, Sequences, FiniteSets, TLC

\* ------------------------------------------------------------------------
\* Bounds of the model
\* ------------------------------------------------------------------------

\* significant bits of the modelled double (53 in binary64)
Precision == 4

\* binary digits after the point: the unit is 2^-FracBits
FracBits == 1

\* binary exponent of the largest finite number above its significand
ExpRange == 1

\* longest input vector
MaxLen == 3

\* multipliers range over -MaxInput .. MaxInput
MaxInput == 3

\* ------------------------------------------------------------------------
\* The double type
\* ------------------------------------------------------------------------

\* 1.0 counted in units
Unit == 2^FracBits

\* magnitude of the largest finite double, in units
MaxMag == (2^Precision - 1) * 2^(FracBits + ExpRange)

Fin(neg, mag) == [kind |-> "fin", neg |-> neg, mag |-> mag]

Inf(neg) == [kind |-> "inf", neg |-> neg, mag |-> 0]

NaN == [kind |-> "nan", neg |-> FALSE, mag |-> 0]

\* every value a double can hold
Doubles == {Fin(n, m) : n \in BOOLEAN, m \in 0..MaxMag} \cup {Inf(TRUE), Inf(FALSE), NaN}

\* the value of a local that has not been written yet
Unset == [kind |-> "unset", neg |-> FALSE, mag |-> 0]

PosZero == Fin(FALSE, 0)
PosInf == Inf(FALSE)
NegInf == Inf(TRUE)
Tiny == Fin(FALSE, 1)
Half == Fin(FALSE, Unit \div 2)
One == Fin(FALSE, Unit)
Two == Fin(FALSE, 2 * Unit)
Three == Fin(FALSE, 3 * Unit)
MaxFin == Fin(FALSE, MaxMag)
NegMaxFin == Fin(TRUE, MaxMag)

IsNaN(x) == x.kind = "nan"
IsFinite(x) == x.kind = "fin"

\* the signed value of a finite double, in units
Signed(x) == IF x.neg THEN 0 - x.mag ELSE x.mag

Abs(i) == IF i < 0 THEN 0 - i ELSE i

\* the binary exponent at which n/d units fits in Precision bits
RECURSIVE Exponent(_, _, _)
Exponent(n, d, e) == IF n < 2^Precision * d * 2^e THEN e ELSE Exponent(n, d, e + 1)

\* n/d units rounded to Precision significant bits, ties to even
RoundNearestEven(n, d) ==
    LET e == Exponent(n, d, 0)
        ulp == d * 2^e
        q == n \div ulp
        r == n % ulp
        up == (2 * r > ulp) \/ (2 * r = ulp /\ q % 2 = 1)
    IN  (IF up THEN q + 1 ELSE q) * 2^e

\* the double nearest to the exact magnitude n/d units, overflow to infinity
Rounded(neg, n, d) ==
    LET m == RoundNearestEven(n, d)
    IN  IF m > MaxMag THEN Inf(neg) ELSE Fin(neg, m)

\* operator == on doubles
FEq(a, b) ==
    /\ ~IsNaN(a)
    /\ ~IsNaN(b)
    /\ \/ a = b
       \/ IsFinite(a) /\ IsFinite(b) /\ a.mag = 0 /\ b.mag = 0

\* operator + on doubles
FAdd(a, b) ==
    IF IsNaN(a) \/ IsNaN(b) THEN NaN
    ELSE IF a.kind = "inf" THEN (IF b.kind = "inf" /\ b.neg # a.neg THEN NaN ELSE a)
    ELSE IF b.kind = "inf" THEN b
    ELSE LET s == Signed(a) + Signed(b)
         IN  IF s = 0 THEN Fin(a.neg /\ b.neg, 0) ELSE Rounded(s < 0, Abs(s), 1)

\* operator * on doubles, with a zero operand short-circuited to zero
FMulZeroWins(a, b) ==
    IF (IsFinite(a) /\ a.mag = 0) \/ (IsFinite(b) /\ b.mag = 0) THEN PosZero
    ELSE IF IsNaN(a) \/ IsNaN(b) THEN NaN
    ELSE IF a.kind = "inf" \/ b.kind = "inf" THEN Inf(a.neg # b.neg)
    ELSE Rounded(a.neg # b.neg, a.mag * b.mag, Unit)

\* operator + in the place of operator *
FMulAsAdd(a, b) == FAdd(a, b)

\* operator * on doubles
FMul(a, b) ==
    IF IsNaN(a) \/ IsNaN(b) THEN NaN
    ELSE IF a.kind = "inf" \/ b.kind = "inf"
         THEN (IF (IsFinite(a) /\ a.mag = 0) \/ (IsFinite(b) /\ b.mag = 0)
               THEN NaN ELSE Inf(a.neg # b.neg))
    ELSE Rounded(a.neg # b.neg, a.mag * b.mag, Unit)

\* static_cast<double>(int)
IntToDouble(i) == Rounded(i < 0, Abs(i) * Unit, 1)

\* ------------------------------------------------------------------------
\* The function as a whole
\* ------------------------------------------------------------------------

\* std::accumulate(first, last, init): init = init + *first, left to right
RECURSIVE accumulate(_, _)
accumulate(d, init) ==
    IF d = <<>> THEN init ELSE accumulate(Tail(d), FAdd(init, Head(d)))

example_cpp_function(i, d) == FMul(IntToDouble(i), accumulate(d, PosZero))

\* ------------------------------------------------------------------------
\* State: one call per thread
\* ------------------------------------------------------------------------

VARIABLES
    input,   \* input[t]: the int argument of thread t's call
    data,    \* data[t]: the caller's vector, passed by const reference
    pc,      \* pc[t]: "idle" before the call, "accumulate" in the loop, "done" after return
    it,      \* it[t]: the iterator of std::accumulate, a 1-based index into data[t]
    sum,     \* sum[t]: the accumulator
    result   \* result[t]: the returned value

vars == <<input, data, pc, it, sum, result>>

Threads == DOMAIN pc

\* the values the input vectors are built from
Values == {NaN, PosInf, NegInf, Tiny, Half, One, Two, Three, MaxFin, NegMaxFin}

Inputs == (0 - MaxInput)..MaxInput

SeqsUpTo(S, n) == UNION {[1..k -> S] : k \in 0..n}

InitOver(T, I, D) ==
    /\ input \in [T -> I]
    /\ data \in [T -> D]
    /\ pc = [t \in T |-> "idle"]
    /\ it = [t \in T |-> 0]
    /\ sum = [t \in T |-> Unset]
    /\ result = [t \in T |-> Unset]

\* one call, any input
Init == InitOver({1}, Inputs, SeqsUpTo(Values, MaxLen))

\* ------------------------------------------------------------------------
\* Steps of a call
\* ------------------------------------------------------------------------

\* the accumulator starts from 1.0
CallFromOne(t) ==
    /\ pc[t] = "idle"
    /\ pc' = [pc EXCEPT ![t] = "accumulate"]
    /\ it' = [it EXCEPT ![t] = 1]
    /\ sum' = [sum EXCEPT ![t] = One]
    /\ UNCHANGED <<input, data, result>>

\* entry: std::accumulate(data.begin(), data.end(), 0.0)
Call(t) ==
    /\ pc[t] = "idle"
    /\ pc' = [pc EXCEPT ![t] = "accumulate"]
    /\ it' = [it EXCEPT ![t] = 1]
    /\ sum' = [sum EXCEPT ![t] = PosZero]
    /\ UNCHANGED <<input, data, result>>

\* the loop consumes the vector it reads
AccumulateConsuming(t) ==
    /\ pc[t] = "accumulate"
    /\ it[t] <= Len(data[t])
    /\ sum' = [sum EXCEPT ![t] = FAdd(sum[t], data[t][it[t]])]
    /\ it' = [it EXCEPT ![t] = it[t] + 1]
    /\ data' = [data EXCEPT ![t][it[t]] = PosZero]
    /\ UNCHANGED <<input, pc, result>>

\* the accumulator is one static shared by every call
AccumulateShared(t) ==
    /\ pc[t] = "accumulate"
    /\ it[t] <= Len(data[t])
    /\ sum' = [u \in DOMAIN sum |->
                 IF sum[u] = Unset /\ u # t THEN Unset ELSE FAdd(sum[t], data[t][it[t]])]
    /\ it' = [it EXCEPT ![t] = it[t] + 1]
    /\ UNCHANGED <<input, data, pc, result>>

\* the multiplier is applied to every element
AccumulateScaled(t) ==
    /\ pc[t] = "accumulate"
    /\ it[t] <= Len(data[t])
    /\ sum' = [sum EXCEPT ![t] = FAdd(sum[t], FMul(IntToDouble(input[t]), data[t][it[t]]))]
    /\ it' = [it EXCEPT ![t] = it[t] + 1]
    /\ UNCHANGED <<input, data, pc, result>>

\* the iterator is not advanced
AccumulateStuck(t) ==
    /\ pc[t] = "accumulate"
    /\ it[t] <= Len(data[t])
    /\ sum' = [sum EXCEPT ![t] = FAdd(sum[t], data[t][it[t]])]
    /\ UNCHANGED <<input, data, pc, it, result>>

\* one iteration of std::accumulate: init = init + *first; ++first
Accumulate(t) ==
    /\ pc[t] = "accumulate"
    /\ it[t] <= Len(data[t])
    /\ sum' = [sum EXCEPT ![t] = FAdd(sum[t], data[t][it[t]])]
    /\ it' = [it EXCEPT ![t] = it[t] + 1]
    /\ UNCHANGED <<input, data, pc, result>>

\* the loop is left one element early
ReturnEarly(t) ==
    /\ pc[t] = "accumulate"
    /\ it[t] >= Len(data[t])
    /\ result' = [result EXCEPT ![t] = FMul(IntToDouble(input[t]), sum[t])]
    /\ pc' = [pc EXCEPT ![t] = "done"]
    /\ UNCHANGED <<input, data, it, sum>>

\* first == last: return static_cast<double>(input) * sum
Return(t) ==
    /\ pc[t] = "accumulate"
    /\ it[t] > Len(data[t])
    /\ result' = [result EXCEPT ![t] = FMul(IntToDouble(input[t]), sum[t])]
    /\ pc' = [pc EXCEPT ![t] = "done"]
    /\ UNCHANGED <<input, data, it, sum>>

Step(t) == Call(t) \/ Accumulate(t) \/ Return(t)

Next == \E t \in Threads : Step(t)

Spec == Init /\ [][Next]_vars

\* the call runs to its return once started: nothing else competes for the thread
FairSpec == Init /\ [][Next]_vars /\ WF_vars(Next)

\* two threads call the function at the same time, each on its own vector
MTThreads == {1, 2}
MTValues == {Half, MaxFin, NaN}
MTInputs == {0 - 1, MaxInput}

InitMT == InitOver(MTThreads, MTInputs, SeqsUpTo(MTValues, MaxLen))

SpecMT == InitMT /\ [][Next]_vars

\* ------------------------------------------------------------------------
\* Vocabulary of the properties
\* ------------------------------------------------------------------------

Done(t) == pc[t] = "done"

AllFinite(d) == \A i \in 1..Len(d) : IsFinite(d[i])

\* the sum of a vector of finite doubles as a real number, in units
RECURSIVE ExactSum(_)
ExactSum(d) == IF d = <<>> THEN 0 ELSE Signed(Head(d)) + ExactSum(Tail(d))

\* a magnitude some finite double has exactly
Representable(n) ==
    /\ n <= MaxMag
    /\ \E e \in 0..(FracBits + ExpRange) : n % 2^e = 0 /\ n \div 2^e < 2^Precision

\* no partial sum and no product on the way is rounded or overflows
NoRounding(i, d) ==
    /\ \A k \in 0..Len(d) : Representable(Abs(ExactSum(SubSeq(d, 1, k))))
    /\ Representable(Abs(i) * Unit)
    /\ Representable(Abs(i * ExactSum(d)))

\* the floating-point sum of the first k elements, taken left to right from 0.0
RECURSIVE LeftSum(_, _)
LeftSum(d, k) == IF k = 0 THEN PosZero ELSE FAdd(LeftSum(d, k - 1), d[k])

\* the position of the first +Infinity of a vector that has one
FirstPosInf(d) == CHOOSE i \in 1..Len(d) : d[i] = PosInf /\ \A j \in 1..(i - 1) : d[j] # PosInf

HasPosInfOnly(d) ==
    /\ \E i \in 1..Len(d) : d[i] = PosInf
    /\ \A i \in 1..Len(d) : d[i] # NegInf

HasNaN(d) == \E i \in 1..Len(d) : IsNaN(d[i])

\* ------------------------------------------------------------------------
\* C1
\* ------------------------------------------------------------------------

\* C1 as stated: for every vector of finite values and every multiplier, the
\* returned value is the multiplier times the sum of the elements, as numbers.
C1_ExactProductAlways ==
    \A t \in Threads :
        (Done(t) /\ AllFinite(data[t]))
            => (IsFinite(result[t]) /\ Signed(result[t]) = input[t] * ExactSum(data[t]))

\* C1 amended: for every vector of finite values and every multiplier, when no
\* left-to-right partial sum and no product is rounded or overflows, the returned
\* value is exactly the multiplier times the sum of the elements; so
\* scale_sum(3, [1, 2, 3]) is 18 and scale_sum(-2, [0.5, 0.5]) is -2.
C1_ExactProductWhenNoRounding ==
    \A t \in Threads :
        Done(t) =>
            /\ (AllFinite(data[t]) /\ NoRounding(input[t], data[t]))
                   => (IsFinite(result[t]) /\ Signed(result[t]) = input[t] * ExactSum(data[t]))
            /\ (input[t] = 3 /\ data[t] = <<One, Two, Three>>) => result[t] = Fin(FALSE, 18 * Unit)
            /\ (input[t] = 0 - 2 /\ data[t] = <<Half, Half>>) => result[t] = Fin(TRUE, 2 * Unit)

\* the call scale_sum(3, [1, 2, 3]) has returned 18
C1_Witness ==
    /\ Done(1) /\ input[1] = 3 /\ data[1] = <<One, Two, Three>>
    /\ NoRounding(input[1], data[1])
    /\ result[1] = Fin(FALSE, 18 * Unit)

\* ------------------------------------------------------------------------
\* C2
\* ------------------------------------------------------------------------

\* C2: on the empty vector the returned value compares equal to 0.0, for every
\* multiplier (for a negative multiplier it is the zero of negative sign).
C2_EmptyGivesZero ==
    \A t \in Threads : (Done(t) /\ data[t] = <<>>) => FEq(result[t], PosZero)

\* a call on the empty vector with a negative multiplier has returned
C2_Witness == Done(1) /\ data[1] = <<>> /\ input[1] < 0 /\ result[1] = Fin(TRUE, 0)

\* ------------------------------------------------------------------------
\* C3
\* ------------------------------------------------------------------------

\* C3 as stated: with multiplier 0 and a vector of finite values the returned
\* value equals 0.0, also when the running sum leaves the finite range.
C3_ZeroMultiplierAlwaysZero ==
    \A t \in Threads :
        (Done(t) /\ input[t] = 0 /\ AllFinite(data[t])) => FEq(result[t], PosZero)

\* C3 amended: with multiplier 0 and a vector of finite values the returned value
\* equals 0.0 when the running sum stays finite, and is NaN when the running sum
\* has overflowed to an infinity.
C3_ZeroMultiplierZeroUnlessOverflow ==
    \A t \in Threads :
        (Done(t) /\ input[t] = 0 /\ AllFinite(data[t]))
            => IF IsFinite(sum[t]) THEN FEq(result[t], PosZero) ELSE IsNaN(result[t])

\* a call with multiplier 0 on finite values with a nonzero finite sum has returned
C3_Witness ==
    /\ Done(1) /\ input[1] = 0 /\ Len(data[1]) >= 2 /\ AllFinite(data[1])
    /\ IsFinite(sum[1]) /\ sum[1].mag > 0

\* ------------------------------------------------------------------------
\* C4
\* ------------------------------------------------------------------------

\* C4 as stated: a vector with a +Infinity and no -Infinity, and a positive
\* multiplier, give +Infinity whatever the other elements are.
C4_PosInfAlwaysWins ==
    \A t \in Threads :
        (Done(t) /\ input[t] > 0 /\ HasPosInfOnly(data[t])) => result[t] = PosInf

\* C4 amended: a vector with a +Infinity, no -Infinity and no NaN, whose running
\* sum has not overflowed to -Infinity before the first +Infinity is added, and a
\* positive multiplier, give +Infinity.
C4_PosInfWinsUnlessNaNOrOverflow ==
    \A t \in Threads :
        ( /\ Done(t) /\ input[t] > 0 /\ HasPosInfOnly(data[t])
          /\ ~HasNaN(data[t])
          /\ LeftSum(data[t], FirstPosInf(data[t]) - 1) # NegInf )
            => result[t] = PosInf

\* a call whose vector has finite values before and after its +Infinity has returned
C4_Witness ==
    /\ Done(1) /\ input[1] > 0 /\ Len(data[1]) = 3
    /\ IsFinite(data[1][1]) /\ data[1][2] = PosInf /\ IsFinite(data[1][3])
    /\ result[1] = PosInf

\* ------------------------------------------------------------------------
\* C5
\* ------------------------------------------------------------------------

\* C5: when an element of the vector is NaN the returned value is NaN, for every
\* multiplier, 0 included, and every position of the NaN.
C5_NaNPropagates ==
    \A t \in Threads : (Done(t) /\ HasNaN(data[t])) => IsNaN(result[t])

\* a call with multiplier 0 whose only NaN is the last of several elements has returned
C5_Witness ==
    /\ Done(1) /\ input[1] = 0 /\ Len(data[1]) >= 2
    /\ IsNaN(data[1][Len(data[1])])
    /\ \A i \in 1..(Len(data[1]) - 1) : IsFinite(data[1][i])

\* ------------------------------------------------------------------------
\* C6
\* ------------------------------------------------------------------------

\* C6 as stated: with multiplier 1 the returned value compares equal (==) to the
\* sum of the vector, for every vector.
C6_MultiplierOneEqualsSum ==
    \A t \in Threads :
        (Done(t) /\ input[t] = 1) => FEq(result[t], LeftSum(data[t], Len(data[t])))

\* C6 amended: with multiplier 1 the returned value is the same double as the
\* left-to-right sum of the vector: the two compare equal when that sum is not
\* NaN, and both are NaN otherwise.
C6_MultiplierOneIsSum ==
    \A t \in Threads :
        (Done(t) /\ input[t] = 1) =>
            LET s == LeftSum(data[t], Len(data[t]))
            IN  /\ result[t] = s
                /\ ~IsNaN(s) => FEq(result[t], s)

\* a call with multiplier 1 on a vector with a nonzero finite sum has returned
C6_Witness ==
    /\ Done(1) /\ input[1] = 1 /\ Len(data[1]) >= 2
    /\ IsFinite(result[1]) /\ result[1].mag > Unit

\* ------------------------------------------------------------------------
\* C7
\* ------------------------------------------------------------------------

\* C7: no step of a call changes the caller's vector (its length or an element)
\* or the caller's multiplier; the call writes its own locals and the returned
\* value only.
C7_InputsUntouched == [][data' = data /\ input' = input]_vars

\* a call over a vector of the greatest length has read every element and returned
C7_Witness == Done(1) /\ Len(data[1]) = MaxLen /\ it[1] = MaxLen + 1 /\ result[1] # Unset

\* ------------------------------------------------------------------------
\* C8
\* ------------------------------------------------------------------------

\* C8: when two threads run the function at the same time on their own vectors,
\* in every interleaving of their steps each call returns what it returns when
\* run alone.
C8_ConcurrentCallsIndependent ==
    \A t \in Threads : Done(t) => result[t] = example_cpp_function(input[t], data[t])

\* one thread has returned while the other is in the middle of its loop, the two
\* calls having different inputs
C8_Witness ==
    /\ Threads = MTThreads
    /\ Done(1) /\ Len(data[1]) >= 2
    /\ pc[2] = "accumulate" /\ it[2] = 2 /\ Len(data[2]) >= 2
    /\ data[1] # data[2] /\ sum[2] # sum[1]

\* ------------------------------------------------------------------------
\* C9
\* ------------------------------------------------------------------------

\* no call is in a state other than the three of the control flow, and a
\* returned value is a double: a number, an infinity or NaN
NoFailure ==
    \A t \in Threads :
        /\ pc[t] \in {"idle", "accumulate", "done"}
        /\ pc[t] = "accumulate" => sum[t] \in Doubles
        /\ Done(t) => result[t] \in Doubles

\* C9: for every vector (empty, or with non-finite elements) and every
\* multiplier the call never reaches a failure and it returns a double.
C9_CannotFail == []NoFailure /\ <>(\A t \in Threads : Done(t))

\* a call on a vector with a NaN and an infinity has returned a double
C9_Witness ==
    /\ Done(1) /\ HasNaN(data[1]) /\ HasPosInfOnly(data[1])
    /\ result[1] \in Doubles

\* ------------------------------------------------------------------------
\* C10
\* ------------------------------------------------------------------------

\* C10: the accumulator starts at 0.0; after k iterations it is the
\* left-to-right sum of the first k elements; the loop ends after the last
\* element; and the multiplier is applied once, to the whole sum, at the return.
C10_SinglePassThenOneMultiply ==
    \A t \in Threads :
        /\ pc[t] = "idle" => (sum[t] = Unset /\ result[t] = Unset)
        /\ pc[t] = "accumulate" =>
               /\ it[t] \in 1..(Len(data[t]) + 1)
               /\ it[t] = 1 => sum[t] = PosZero
               /\ sum[t] = LeftSum(data[t], it[t] - 1)
               /\ result[t] = Unset
        /\ Done(t) =>
               /\ it[t] = Len(data[t]) + 1
               /\ sum[t] = LeftSum(data[t], Len(data[t]))
               /\ result[t] = FMul(IntToDouble(input[t]), sum[t])

\* a call with multiplier 2 has returned 2.0 for [max, -max, 1.0]: multiplying each
\* element before adding would have overflowed on the way
C10_Witness ==
    /\ Done(1) /\ input[1] = 2 /\ data[1] = <<MaxFin, NegMaxFin, One>>
    /\ sum[1] = One /\ result[1] = Two

====
